---- MODULE Spec2Model ----
(***************************************************************************)
(* Content-moderation pipeline of langchainLearning: the keyword matcher,  *)
(* the text and image moderation nodes, the result combiner, the two       *)
(* moderation graphs and their entry points.                               *)
(*                                                                         *)
(* Python values are tagged records: a dict is [py |-> "dict", d |-> r]    *)
(* where r is a TLA+ record holding exactly the keys the dict holds, so    *)
(* dict.get(k, default) and "key missing" are modelled as in Python.       *)
(* Chinese characters are written as pinyin tokens (sha1 = U+6740, ...):   *)
(* a text is a sequence of characters, a keyword is a sequence of          *)
(* characters, and matching is substring search.                           *)
(***************************************************************************)
EXTENDS Integers, Sequences, FiniteSets, TLC

VARIABLES
    entry,      \* the entry point called: process_content_moderation or process_image_moderation
    text_arg,   \* its text_content argument
    image_arg,  \* its image_base64 argument
    client_ok,  \* whether the environment lets ChatOpenAI(...) be built
    pc,         \* "call", the graph node about to run, "END", "raised" or "returned"
    state,      \* the graph's state dict
    response,   \* what the entry point returned
    trace,      \* the graph nodes run so far, in order
    calls,      \* chatLLM.invoke calls made so far, per model call site
    outcomes,   \* what each invoke call did: raised, or the kind of reply it gave
    inflight,   \* the chatLLM.invoke calls issued and not yet returned or raised
    pending,    \* inside image_moderator: what the moderation call did, once it is back
    processing_results,  \* app.py's task store: task id -> the task's entry
    background_tasks,    \* the process_image_background tasks added and not yet run
    uploads,             \* how many uploads the server has accepted
    deleted              \* the task ids for which DELETE /results/{task_id} has succeeded

\* the variables of a moderation request, and those of the API server's task store
pipelineVars == <<entry, text_arg, image_arg, client_ok, pc, state, response, trace, calls,
                  outcomes, inflight, pending>>
storeVars == <<processing_results, background_tasks, uploads, deleted>>
vars == <<pipelineVars, storeVars>>

(***************************************************************************)
(* Bounds                                                                  *)
(***************************************************************************)
\* a request text is the concatenation of at most MaxWords words of Words
MaxWords == 2

(***************************************************************************)
(* Python values                                                           *)
(***************************************************************************)
PyNone == [py |-> "None"]
PyDict(d) == [py |-> "dict", d |-> d]
PyList(n) == [py |-> "list", len |-> n]
PyStr(s) == [py |-> "str", s |-> s]

EmptyDict == [k \in {} |-> TRUE]

\* Python truthiness: bool(v)
Truthy(v) ==
    CASE v.py = "None" -> FALSE
      [] v.py = "dict" -> DOMAIN v.d # {}
      [] v.py = "list" -> v.len > 0
      [] v.py = "str"  -> v.s # ""

\* dict.get(k, default)
Get(d, k, default) == IF k \in DOMAIN d THEN d[k] ELSE default

\* d[k] = v on a dict
SetItem(d, k, v) == [x \in DOMAIN d \cup {k} |-> IF x = k THEN v ELSE d[x]]

\* {**a, **b}
Merge(a, b) == [x \in DOMAIN a \cup DOMAIN b |-> IF x \in DOMAIN b THEN b[x] ELSE a[x]]

(***************************************************************************)
(* Texts                                                                   *)
(***************************************************************************)
Space == " "

\* str.isspace on one character
IsSpace(c) == c = Space

\* str.lower on one character: only cased letters change
LowerChar(c) == IF c = "A" THEN "a" ELSE c

\* str.lower
Lower(s) == [i \in 1..Len(s) |-> LowerChar(s[i])]

RECURSIVE LStrip(_)
LStrip(s) == IF s # <<>> /\ IsSpace(Head(s)) THEN LStrip(Tail(s)) ELSE s

RECURSIVE RStrip(_)
RStrip(s) ==
    IF s # <<>> /\ IsSpace(s[Len(s)]) THEN RStrip(SubSeq(s, 1, Len(s) - 1)) ELSE s

\* str.strip
Strip(s) == RStrip(LStrip(s))

\* needle in haystack (substring test)
Contains(needle, haystack) ==
    \E i \in 1..(Len(haystack) - Len(needle) + 1) :
        SubSeq(haystack, i, i + Len(needle) - 1) = needle

\* the words request texts are built from:
\*   " ", "A", U+6027 U+66B4 U+529B (sexual violence: an adult and a violence
\*   keyword), U+6BD2 U+54C1 (drugs), U+8272 U+60C5 U+5185 U+5BB9 (pornographic
\*   content: two adult keywords, one inside the other)
Words ==
    { <<Space>>, <<"A">>, <<"xing4", "bao4", "li4">>,
      <<"du2", "pin3">>, <<"se4", "qing2", "nei4", "rong2">> }

RECURSIVE TextsOf(_)
TextsOf(n) ==
    IF n = 0 THEN { <<>> }
    ELSE LET shorter == TextsOf(n - 1)
         IN  shorter \cup { t \o w : t \in shorter, w \in Words }

Texts == TextsOf(MaxWords)

\* image_base64 values: no image, or some base64 payload
Images == { "", "aW1n" }

(***************************************************************************)
(* Keyword Matcher                                                         *)
(***************************************************************************)
\* load_moderation_keywords: category -> keywords, in dict order
moderation_keywords ==
    << [category |-> "violence",
        keywords |-> << <<"sha1">>, <<"si3">>, <<"bao4", "li4">>, <<"da3", "dou4">>,
                        <<"xue4", "xing1">>, <<"zhan4", "zheng1">>,
                        <<"kong3", "bu4">>, <<"wei1", "xie2">> >>],
       [category |-> "adult",
        keywords |-> << <<"se4", "qing2">>, <<"cheng2", "ren2">>, <<"xing4">>,
                        <<"luo3", "lu4">>, <<"lu4", "gu3">>,
                        <<"se4", "qing2", "nei4", "rong2">> >>],
       [category |-> "illegal",
        keywords |-> << <<"du2", "pin3">>, <<"du3", "bo2">>, <<"zha4", "pian4">>,
                        <<"wei2", "fa3">>, <<"fan4", "zui4">>, <<"zou3", "si1">>,
                        <<"dao4", "ban3">> >>],
       [category |-> "hate",
        keywords |-> << <<"qi2", "shi4">>, <<"zhong3", "zu2">>, <<"chou2", "hen4">>,
                        <<"ru3", "ma4">>, <<"wu3", "ru3">>, <<"fei3", "bang4">> >>],
       [category |-> "politics",
        keywords |-> << <<"zheng4", "zhi4">>, <<"zheng4", "fu3">>,
                        <<"ling3", "dao3", "ren2">>,
                        <<"min3", "gan3", "zheng4", "zhi4", "hua4", "ti2">> >>] >>

\* the (category, keyword) pairs in the order the two nested loops visit them
RECURSIVE KeywordPairs(_)
KeywordPairs(table) ==
    IF table = <<>> THEN <<>>
    ELSE LET row == Head(table)
         IN  [i \in 1..Len(row.keywords) |->
                 [category |-> row.category, keyword |-> row.keywords[i]]]
             \o KeywordPairs(Tail(table))

\* the pairs whose keyword occurs in the lower-cased text
DetectedPairs(text) ==
    LET text_lower == Lower(text)
        Hit(p) == Contains(Lower(p.keyword), text_lower)
    IN  SelectSeq(KeywordPairs(moderation_keywords), Hit)

\* moderate_text_with_keywords whose high level needs more than three hits
moderate_text_with_keywords_MoreThanThree(text) ==
    LET hits == DetectedPairs(text)
        detected_categories == [i \in 1..Len(hits) |-> hits[i].category]
        detected_keywords == [i \in 1..Len(hits) |-> hits[i].keyword]
        is_safe == Len(detected_categories) = 0
        risk_level == IF is_safe THEN "low"
                      ELSE IF Len(detected_categories) > 3 THEN "high" ELSE "medium"
    IN  [is_safe |-> is_safe,
         risk_level |-> risk_level,
         categories |-> detected_categories,
         confidence |-> IF detected_keywords # <<>> THEN "0.8" ELSE "1.0",
         detected_keywords |-> detected_keywords]

moderate_text_with_keywords(text) ==
    LET hits == DetectedPairs(text)
        detected_categories == [i \in 1..Len(hits) |-> hits[i].category]
        detected_keywords == [i \in 1..Len(hits) |-> hits[i].keyword]
        is_safe == Len(detected_categories) = 0
        risk_level == IF is_safe THEN "low"
                      ELSE IF Len(detected_categories) >= 3 THEN "high" ELSE "medium"
    IN  [is_safe |-> is_safe,
         risk_level |-> risk_level,
         categories |-> detected_categories,
         confidence |-> IF detected_keywords # <<>> THEN "0.8" ELSE "1.0",
         detected_keywords |-> detected_keywords]

(***************************************************************************)
(* Model replies                                                           *)
(*                                                                         *)
(* response.content is a sequence of tokens: the markers "```json" and     *)
(* "```", one whitespace character, a run of prose, or a JSON document     *)
(* (with the Python value json.loads gives for it).  "cut" is what is left *)
(* of a token whose last character was sliced off.                         *)
(***************************************************************************)
FenceJson == [k |-> "fence_json"]
Fence == [k |-> "fence"]
Ws == [k |-> "ws"]
Prose == [k |-> "prose"]
Cut == [k |-> "cut"]
Doc(v) == [k |-> "doc", v |-> v]

RiskOrder == <<"low", "medium", "high">>

\* the JSON objects a model may answer with: is_safe and risk_level each
\* present or missing, risk_level possibly outside the three known levels;
\* categories accompany every risk_level above low, whatever is_safe says
VerdictObjects ==
    { [x \in ks |->
          CASE x = "is_safe" -> s
            [] x = "risk_level" -> r
            [] x = "categories" -> IF r \in {"medium", "high", "critical"}
                                   THEN <<"violence">> ELSE <<>>] :
      s \in BOOLEAN, r \in {"low", "medium", "high", "critical"},
      ks \in { {}, {"is_safe"}, {"risk_level", "categories"},
               {"is_safe", "risk_level", "categories"} } }

\* what json.loads can return: an object, or null, a list, a string
JsonValues ==
    { PyDict(o) : o \in VerdictObjects }
        \cup { PyNone, PyList(1), PyStr("ok") }

\* the shapes a reply carrying document v comes in
ReplyShapes(v) ==
    { << Doc(v) >>,
      << Ws, Doc(v), Ws >>,
      << FenceJson, Ws, Doc(v), Ws, Fence >>,
      << Prose, FenceJson, Doc(v), Fence, Prose >>,
      << FenceJson, Ws, Doc(v), Ws >>,
      << FenceJson, Ws, Doc(v) >>,
      << Prose, Doc(v) >>,
      << Fence, Doc(v), Fence >> }

Replies ==
    UNION { ReplyShapes(v) : v \in JsonValues } \cup { << Prose >>, << >>, << FenceJson >> }

\* an invocation of the model client raises, or returns a reply
Raised == [raised |-> TRUE]
Returned(v) == [raised |-> FALSE, val |-> v]
InvokeOutcomes == { Raised } \cup { Returned(c) : c \in Replies }

\* str.strip on a token sequence
RECURSIVE LStripTokens(_)
LStripTokens(s) == IF s # <<>> /\ Head(s) = Ws THEN LStripTokens(Tail(s)) ELSE s

RECURSIVE RStripTokens(_)
RStripTokens(s) ==
    IF s # <<>> /\ s[Len(s)] = Ws THEN RStripTokens(SubSeq(s, 1, Len(s) - 1)) ELSE s

StripTokens(s) == RStripTokens(LStripTokens(s))

\* s[:-1]: the last character goes; a one-character token goes with it
DropLastChar(s) ==
    IF s = <<>> THEN <<>>
    ELSE IF s[Len(s)] = Ws THEN SubSeq(s, 1, Len(s) - 1)
    ELSE SubSeq(s, 1, Len(s) - 1) \o << Cut >>

\* json.loads: surrounding whitespace is skipped, exactly one document parses
json_loads(s) ==
    LET t == StripTokens(s)
    IN  IF Len(t) = 1 /\ t[1].k = "doc" THEN Returned(t[1].v) ELSE Raised

\* "```" is found in "```json" as well
IsFence(t) == t = Fence \/ t = FenceJson

\* content.find("```json"): the first index, 0 if none (str.find returns -1)
FindFenceJson(s) ==
    IF \E i \in 1..Len(s) : s[i] = FenceJson
    THEN CHOOSE i \in 1..Len(s) : s[i] = FenceJson /\ \A j \in 1..(i - 1) : s[j] # FenceJson
    ELSE 0

\* content.find("```", from): the first index i >= from, 0 if none
FindFence(s, from) ==
    IF \E i \in from..Len(s) : IsFence(s[i])
    THEN CHOOSE i \in from..Len(s) : IsFence(s[i]) /\ \A j \in from..(i - 1) : ~IsFence(s[j])
    ELSE 0

\* the JSON extraction both moderators share
ExtractJson(content) ==
    IF FindFenceJson(content) # 0
    THEN LET json_start == FindFenceJson(content) + 1
             json_end == FindFence(content, json_start)
             json_content ==
                 IF json_end # 0
                 THEN SubSeq(content, json_start, json_end - 1)
                 ELSE DropLastChar(SubSeq(content, json_start, Len(content)))
         IN  json_loads(StripTokens(json_content))
    ELSE json_loads(content)

\* a parsed reply that holds the two fields a verdict is read by
IsVerdictShape(v) == v.py = "dict" /\ {"is_safe", "risk_level"} \subseteq DOMAIN v.d

\* what an invoke call did, as the extraction sees it
OutcomeKind(outcome) ==
    IF outcome.raised THEN "raised"
    ELSE LET r == ExtractJson(outcome.val)
         IN  IF r.raised THEN "unparseable"
             ELSE IF IsVerdictShape(r.val) THEN "verdict" ELSE "malformed"

(***************************************************************************)
(* Text Moderator                                                          *)
(***************************************************************************)
\* ok: whether ChatOpenAI(...) can be built in this environment (it is built
\* before the try block); outcome: what chatLLM.invoke does
moderate_text_with_llm(text, ok, outcome) ==
    IF ~ok THEN Raised
    ELSE IF outcome.raised THEN Returned(PyDict(moderate_text_with_keywords(text)))
    ELSE LET result == ExtractJson(outcome.val)
         IN  IF result.raised
             THEN Returned(PyDict(moderate_text_with_keywords(text)))
             ELSE result

\* IsBlank without the strip(): only the empty text counts as blank
IsBlank_NoStrip(text_content) == text_content = <<>>

\* not text_content or not text_content.strip()
IsBlank(text_content) == text_content = <<>> \/ Strip(text_content) = <<>>

EmptyContentVerdict ==
    [is_safe |-> TRUE, risk_level |-> "low", categories |-> <<>>,
     confidence |-> "1.0", method |-> "empty_content"]

\* text_moderation_node whose fallback is missing: a failed LLM pass leaves no
\* verdict and an error
text_moderation_node_NoFallback(st, ok, outcome) ==
    LET text_content == st.text_content
    IN  IF IsBlank(text_content)
        THEN [text_moderation_result |-> PyDict(EmptyContentVerdict), error |-> PyNone]
        ELSE LET r == moderate_text_with_llm(text_content, ok, outcome)
             IN  IF ~r.raised /\ r.val.py = "dict"
                 THEN [text_moderation_result |->
                           PyDict(SetItem(r.val.d, "method", "llm_analysis")),
                       error |-> PyNone]
                 ELSE [text_moderation_result |-> PyNone,
                       error |-> PyStr("text moderation failed: error")]

\* the update the node returns
text_moderation_node(st, ok, outcome) ==
    LET text_content == st.text_content
    IN  IF IsBlank(text_content)
        THEN [text_moderation_result |-> PyDict(EmptyContentVerdict), error |-> PyNone]
        ELSE LET r == moderate_text_with_llm(text_content, ok, outcome)
             IN  \* result["method"] = ... raises TypeError unless result is a dict
                 IF ~r.raised /\ r.val.py = "dict"
                 THEN [text_moderation_result |->
                           PyDict(SetItem(r.val.d, "method", "llm_analysis")),
                       error |-> PyNone]
                 ELSE [text_moderation_result |->
                           PyDict(SetItem(moderate_text_with_keywords(text_content),
                                          "method", "keyword_analysis")),
                       error |-> PyNone]

\* whether the node reaches chatLLM.invoke
TextCallMade(st, ok) == ~IsBlank(st.text_content) /\ ok

(***************************************************************************)
(* Image Moderator and Image Describer                                     *)
(***************************************************************************)
AnalysisFailedVerdict ==
    [is_safe |-> FALSE, risk_level |-> "medium", categories |-> <<"unknown">>,
     confidence |-> "0.5", description |-> "cannot analyse image",
     method |-> "analysis_failed"]

\* moderate_image_with_llm whose except branch only covers the invocation: a
\* reply that does not parse is passed as a safe verdict
moderate_image_with_llm_Optimistic(ok, outcome) ==
    IF ~ok THEN Raised
    ELSE IF outcome.raised THEN Returned(PyDict(AnalysisFailedVerdict))
    ELSE LET result == ExtractJson(outcome.val)
         IN  IF result.raised
             THEN Returned(PyDict([is_safe |-> TRUE, risk_level |-> "low",
                                   categories |-> <<>>, confidence |-> "0.5",
                                   method |-> "analysis_failed"]))
             ELSE result

moderate_image_with_llm(ok, outcome) ==
    IF ~ok THEN Raised
    ELSE IF outcome.raised THEN Returned(PyDict(AnalysisFailedVerdict))
    ELSE LET result == ExtractJson(outcome.val)
         IN  IF result.raised THEN Returned(PyDict(AnalysisFailedVerdict)) ELSE result

\* what the describing model may do: raise, or reply with a text, possibly empty
DescribeOutcomes == { Raised, Returned(""), Returned("a street at night") }

\* analyze_image_content without its except branch: a failed invocation leaves
\* the function as an exception
analyze_image_content_Propagates(ok, outcome) ==
    IF ~ok THEN Raised
    ELSE IF outcome.raised THEN Raised
    ELSE Returned([description |-> outcome.val, success |-> TRUE,
                   method |-> "llm_analysis"])

analyze_image_content(ok, outcome) ==
    IF ~ok THEN Raised
    ELSE IF outcome.raised
    THEN Returned([description |-> "image analysis failed: error", success |-> FALSE,
                   method |-> "analysis_failed"])
    ELSE Returned([description |-> outcome.val, success |-> TRUE,
                   method |-> "llm_analysis"])

NoImageVerdict ==
    [is_safe |-> TRUE, risk_level |-> "low", categories |-> <<>>,
     confidence |-> "1.0", description |-> "no image provided",
     method |-> "no_content"]

ImageNodeError == PyStr("image moderation failed: error")

\* the update the node returns
image_moderation_node(st, ok, mod_outcome, desc_outcome) ==
    LET image_base64 == st.image_base64
    IN  IF image_base64 = ""
        THEN [image_moderation_result |-> PyDict(NoImageVerdict),
              image_analysis_result |-> "",
              error |-> PyNone]
        ELSE LET moderation_result == moderate_image_with_llm(ok, mod_outcome)
                 analysis_result == analyze_image_content(ok, desc_outcome)
             IN  IF moderation_result.raised \/ analysis_result.raised
                 THEN [image_moderation_result |-> PyNone,
                       image_analysis_result |-> "",
                       error |-> ImageNodeError]
                 ELSE [image_moderation_result |-> moderation_result.val,
                       image_analysis_result |->
                           Get(analysis_result.val, "description", ""),
                       error |-> PyNone]

\* whether the node reaches the two chatLLM.invoke calls
ImageCallsMade(st, ok) == st.image_base64 # "" /\ ok

(***************************************************************************)
(* Result Combiner                                                         *)
(***************************************************************************)
\* ["low", "medium", "high"].index(x); 0 stands for the ValueError
RiskIndex(x) ==
    IF \E i \in 1..Len(RiskOrder) : RiskOrder[i] = x
    THEN CHOOSE i \in 1..Len(RiskOrder) : RiskOrder[i] = x
    ELSE 0

\* MaxRisk that takes the newer level instead of the larger
MaxRisk_Last(a, b) == b

\* max(a, b, key=index): the first of the largest
MaxRisk(a, b) == IF RiskIndex(b) > RiskIndex(a) THEN b ELSE a

Line(name) == [line |-> name]
CategoryLine(name, categories) == [line |-> name, categories |-> categories]

CombineStart == [raised |-> FALSE, overall_safe |-> TRUE, risk_level |-> "low",
                 recommendations |-> <<>>]

\* "if text_result:" and its body; acc is the combiner's locals so far
AnalyseText(acc, text_result) ==
    IF acc.raised \/ ~Truthy(text_result) THEN acc
    ELSE IF text_result.py # "dict" THEN [acc EXCEPT !.raised = TRUE]
    ELSE LET text_safe == Get(text_result.d, "is_safe", TRUE)
             text_risk == Get(text_result.d, "risk_level", "low")
             text_categories == Get(text_result.d, "categories", <<>>)
         IN  IF text_safe THEN acc
             ELSE IF RiskIndex(text_risk) = 0 THEN [acc EXCEPT !.raised = TRUE]
             ELSE [raised |-> FALSE,
                   overall_safe |-> FALSE,
                   risk_level |-> MaxRisk(acc.risk_level, text_risk),
                   recommendations |->
                       IF text_categories # <<>>
                       THEN Append(acc.recommendations,
                                   CategoryLine("text_contains", text_categories))
                       ELSE acc.recommendations]

\* AnalyseImage that raises the risk level for an unsafe image but forgets to
\* clear overall_safe
AnalyseImage_KeepsSafe(acc, image_moderation_result) ==
    IF acc.raised \/ ~Truthy(image_moderation_result) THEN acc
    ELSE IF image_moderation_result.py # "dict" THEN [acc EXCEPT !.raised = TRUE]
    ELSE LET image_safe == Get(image_moderation_result.d, "is_safe", TRUE)
             image_risk == Get(image_moderation_result.d, "risk_level", "low")
         IN  IF image_safe
             THEN [acc EXCEPT !.recommendations = Append(@, Line("image_safe"))]
             ELSE IF RiskIndex(image_risk) = 0 THEN [acc EXCEPT !.raised = TRUE]
             ELSE [acc EXCEPT !.risk_level = MaxRisk(acc.risk_level, image_risk)]

\* AnalyseImage that assigns the image's risk level instead of taking the larger
AnalyseImage_Overwrites(acc, image_moderation_result) ==
    IF acc.raised \/ ~Truthy(image_moderation_result) THEN acc
    ELSE IF image_moderation_result.py # "dict" THEN [acc EXCEPT !.raised = TRUE]
    ELSE LET image_safe == Get(image_moderation_result.d, "is_safe", TRUE)
             image_risk == Get(image_moderation_result.d, "risk_level", "low")
         IN  IF image_safe
             THEN [acc EXCEPT !.recommendations = Append(@, Line("image_safe"))]
             ELSE IF RiskIndex(image_risk) = 0 THEN [acc EXCEPT !.raised = TRUE]
             ELSE [acc EXCEPT !.overall_safe = FALSE, !.risk_level = image_risk]

\* AnalyseImage that counts a missing image verdict as a medium risk
AnalyseImage_AbsentIsMedium(acc, image_moderation_result) ==
    IF acc.raised THEN acc
    ELSE IF ~Truthy(image_moderation_result)
    THEN [acc EXCEPT !.risk_level = MaxRisk(acc.risk_level, "medium")]
    ELSE IF image_moderation_result.py # "dict" THEN [acc EXCEPT !.raised = TRUE]
    ELSE LET image_safe == Get(image_moderation_result.d, "is_safe", TRUE)
             image_risk == Get(image_moderation_result.d, "risk_level", "low")
             image_categories == Get(image_moderation_result.d, "categories", <<>>)
         IN  IF image_safe
             THEN [acc EXCEPT !.recommendations = Append(@, Line("image_safe"))]
             ELSE IF RiskIndex(image_risk) = 0 THEN [acc EXCEPT !.raised = TRUE]
             ELSE [raised |-> FALSE,
                   overall_safe |-> FALSE,
                   risk_level |-> MaxRisk(acc.risk_level, image_risk),
                   recommendations |->
                       IF image_categories # <<>>
                       THEN Append(acc.recommendations,
                                   CategoryLine("image_contains", image_categories))
                       ELSE acc.recommendations]

\* "if image_moderation_result:" and its body
AnalyseImage(acc, image_moderation_result) ==
    IF acc.raised \/ ~Truthy(image_moderation_result) THEN acc
    ELSE IF image_moderation_result.py # "dict" THEN [acc EXCEPT !.raised = TRUE]
    ELSE LET image_safe == Get(image_moderation_result.d, "is_safe", TRUE)
             image_risk == Get(image_moderation_result.d, "risk_level", "low")
             image_categories == Get(image_moderation_result.d, "categories", <<>>)
         IN  IF image_safe
             THEN [acc EXCEPT !.recommendations = Append(@, Line("image_safe"))]
             ELSE IF RiskIndex(image_risk) = 0 THEN [acc EXCEPT !.raised = TRUE]
             ELSE [raised |-> FALSE,
                   overall_safe |-> FALSE,
                   risk_level |-> MaxRisk(acc.risk_level, image_risk),
                   recommendations |->
                       IF image_categories # <<>>
                       THEN Append(acc.recommendations,
                                   CategoryLine("image_contains", image_categories))
                       ELSE acc.recommendations]

\* Summarise whose leading line is the pass line whatever overall_safe is
Summarise_AlwaysPassed(acc, image_analysis_result) ==
    IF acc.raised THEN acc
    ELSE LET described ==
                 IF image_analysis_result # ""
                 THEN Append(acc.recommendations, Line("image_described"))
                 ELSE acc.recommendations
         IN  [acc EXCEPT !.recommendations = << Line("moderation_passed") >> \o described]

\* Summarise that appends the summary line instead of inserting it at index 0
Summarise_AppendsSummary(acc, image_analysis_result) ==
    IF acc.raised THEN acc
    ELSE LET described ==
                 IF image_analysis_result # ""
                 THEN Append(acc.recommendations, Line("image_described"))
                 ELSE acc.recommendations
         IN  [acc EXCEPT !.recommendations =
                  IF ~acc.overall_safe
                  THEN Append(described, Line("moderation_failed"))
                  ELSE Append(described, Line("moderation_passed"))]

\* "if image_analysis_result:" and the leading summary line
Summarise(acc, image_analysis_result) ==
    IF acc.raised THEN acc
    ELSE LET described ==
                 IF image_analysis_result # ""
                 THEN Append(acc.recommendations, Line("image_described"))
                 ELSE acc.recommendations
         IN  [acc EXCEPT !.recommendations =
                  IF ~acc.overall_safe
                  THEN << Line("moderation_failed") >> \o described
                  ELSE << Line("moderation_passed") >> \o described]

\* the combiner's locals at its return statement, from the three inputs
Combine(text_result, image_moderation_result, image_analysis_result) ==
    Summarise(AnalyseImage(AnalyseText(CombineStart, text_result),
                           image_moderation_result),
              image_analysis_result)

\* combine_moderation_results that extends the recommendations already in the
\* state instead of starting from an empty list
combine_moderation_results_Accumulates(st) ==
    LET out == Combine(st.text_moderation_result, st.image_moderation_result,
                       st.image_analysis_result)
    IN  IF out.raised THEN Raised
        ELSE Returned(Merge(st, [overall_safe |-> out.overall_safe,
                                 risk_level |-> out.risk_level,
                                 recommendations |->
                                     st.recommendations \o out.recommendations,
                                 error |-> PyNone]))

\* Raised (an exception leaves the node), or the state the node returns
combine_moderation_results(st) ==
    LET out == Combine(st.text_moderation_result, st.image_moderation_result,
                       st.image_analysis_result)
    IN  IF out.raised THEN Raised
        ELSE Returned(Merge(st, [overall_safe |-> out.overall_safe,
                                 risk_level |-> out.risk_level,
                                 recommendations |-> out.recommendations,
                                 error |-> PyNone]))

(***************************************************************************)
(* The graphs                                                              *)
(***************************************************************************)
\* should_process_image that lets an unsafe text verdict skip the image
should_process_image_IfTextSafe(st) ==
    st.image_base64 # "" /\ Get(st.text_moderation_result.d, "is_safe", TRUE)

should_process_image(st) == st.image_base64 # ""

\* content_moderation_graph whose entry is routed by should_process_text: an
\* empty text goes straight on
content_moderation_graph_SkipsEmptyText(node, st) ==
    CASE node = "START" ->
            IF st.text_content # <<>> THEN "text_moderator"
            ELSE IF st.image_base64 # "" THEN "image_moderator" ELSE "result_combiner"
      [] node = "text_moderator" ->
            IF st.image_base64 # "" THEN "image_moderator" ELSE "result_combiner"
      [] node = "image_moderator" -> "result_combiner"
      [] node = "result_combiner" -> "END"

\* the node that follows node in create_content_moderation_graph
content_moderation_graph(node, st) ==
    CASE node = "START" -> "text_moderator"
      [] node = "text_moderator" ->
            IF should_process_image(st) THEN "image_moderator" ELSE "result_combiner"
      [] node = "image_moderator" -> "result_combiner"
      [] node = "result_combiner" -> "END"

\* the node that follows node in create_image_moderation_graph
image_moderation_graph(node) ==
    CASE node = "START" -> "image_moderator"
      [] node = "image_moderator" -> "END"

NextNode(node, st) ==
    IF entry = "content" THEN content_moderation_graph(node, st)
    ELSE image_moderation_graph(node)

initial_state(text_content, image_base64) ==
    [text_content |-> text_content,
     image_base64 |-> image_base64,
     text_moderation_result |-> PyDict(EmptyDict),
     image_moderation_result |-> PyDict(EmptyDict),
     image_analysis_result |-> "",
     overall_safe |-> TRUE,
     risk_level |-> "low",
     recommendations |-> <<>>,
     error |-> PyNone]

Failure(message) == [success |-> FALSE, data |-> PyNone, error |-> PyStr(message)]

\* ContentResponse that leaves risk_level out of a successful result's data
ContentResponse_OmitsRisk(result) ==
    IF Truthy(result.error)
    THEN [success |-> FALSE, data |-> PyNone, error |-> result.error]
    ELSE [success |-> TRUE,
          data |-> PyDict([overall_safe |-> result.overall_safe,
                           recommendations |-> result.recommendations,
                           text_moderation |-> result.text_moderation_result,
                           image_moderation |-> result.image_moderation_result,
                           image_analysis |-> result.image_analysis_result]),
          error |-> result.error]

\* what process_content_moderation returns once the graph has returned result
ContentResponse(result) ==
    IF Truthy(result.error)
    THEN [success |-> FALSE, data |-> PyNone, error |-> result.error]
    ELSE [success |-> TRUE,
          data |-> PyDict([overall_safe |-> result.overall_safe,
                           risk_level |-> result.risk_level,
                           recommendations |-> result.recommendations,
                           text_moderation |-> result.text_moderation_result,
                           image_moderation |-> result.image_moderation_result,
                           image_analysis |-> result.image_analysis_result]),
          error |-> result.error]

\* what process_image_moderation returns once the graph has returned result
ImageResponse(result) ==
    IF Truthy(result.error)
    THEN [success |-> FALSE, data |-> PyNone, error |-> result.error]
    ELSE [success |-> TRUE,
          data |-> PyDict([overall_safe |-> result.overall_safe,
                           risk_level |-> result.risk_level,
                           recommendations |-> result.recommendations,
                           image_moderation |-> result.image_moderation_result,
                           image_analysis |-> result.image_analysis_result]),
          error |-> result.error]

(***************************************************************************)
(* State machine: one request through one entry point                      *)
(***************************************************************************)
NoResponse == [pending |-> TRUE]
NoState == EmptyDict
NoCalls == [text |-> 0, image_moderation |-> 0, image_description |-> 0]
NoOutcomes == [text |-> "none", image_moderation |-> "none", image_description |-> "none"]
NoPending == [none |-> TRUE]

Init ==
    /\ entry \in {"content", "image"}
    /\ image_arg \in Images
    /\ text_arg \in IF entry = "content" THEN Texts ELSE { <<>> }
    /\ client_ok \in BOOLEAN
    /\ pc = "call"
    /\ state = NoState
    /\ response = NoResponse
    /\ trace = <<>>
    /\ calls = NoCalls
    /\ outcomes = NoOutcomes
    /\ inflight = {}
    /\ pending = NoPending
    /\ processing_results = EmptyDict
    /\ background_tasks = {}
    /\ uploads = 0
    /\ deleted = {}

\* process_content_moderation without the check for missing content: the graph
\* is invoked on every request
process_content_moderation_RunsGraph ==
    /\ pc = "call"
    /\ entry = "content"
    /\ state' = initial_state(text_arg, image_arg)
    /\ pc' = NextNode("START", state')
    /\ response' = response
    /\ UNCHANGED <<entry, text_arg, image_arg, client_ok, trace, calls, outcomes,
                   inflight, pending>>
    /\ UNCHANGED storeVars

\* process_content_moderation up to graph.invoke
process_content_moderation ==
    /\ pc = "call"
    /\ entry = "content"
    /\ IF text_arg = <<>> /\ image_arg = ""
       THEN /\ response' = Failure("No content provided")
            /\ pc' = "returned"
            /\ state' = state
       ELSE /\ state' = initial_state(text_arg, image_arg)
            /\ pc' = NextNode("START", state')
            /\ response' = response
    /\ UNCHANGED <<entry, text_arg, image_arg, client_ok, trace, calls, outcomes,
                   inflight, pending>>
    /\ UNCHANGED storeVars

\* process_image_moderation up to graph.invoke
process_image_moderation ==
    /\ pc = "call"
    /\ entry = "image"
    /\ IF image_arg = ""
       THEN /\ response' = Failure("No image provided")
            /\ pc' = "returned"
            /\ state' = state
       ELSE /\ state' = initial_state(<<>>, image_arg)
            /\ pc' = NextNode("START", state')
            /\ response' = response
    /\ UNCHANGED <<entry, text_arg, image_arg, client_ok, trace, calls, outcomes,
                   inflight, pending>>
    /\ UNCHANGED storeVars

\* text_moderator reaches chatLLM.invoke: the call to the text model goes out
TextModelCall ==
    /\ pc = "text_moderator"
    /\ TextCallMade(state, client_ok)
    /\ inflight = {}
    /\ inflight' = {"text"}
    /\ calls' = [calls EXCEPT !.text = @ + 1]
    /\ UNCHANGED <<entry, text_arg, image_arg, client_ok, pc, state, response, trace,
                   outcomes, pending>>
    /\ UNCHANGED storeVars

\* the text model call, if one was made, returns or raises; text_moderator
\* returns and the graph merges its update into the state
TextModerator ==
    /\ pc = "text_moderator"
    /\ TextCallMade(state, client_ok) => inflight = {"text"}
    /\ \E outcome \in InvokeOutcomes :
          /\ state' = Merge(state, text_moderation_node(state, client_ok, outcome))
          /\ outcomes' = IF TextCallMade(state, client_ok)
                         THEN [outcomes EXCEPT !.text = OutcomeKind(outcome)]
                         ELSE outcomes
    /\ inflight' = {}
    /\ trace' = Append(trace, "text_moderator")
    /\ pc' = NextNode("text_moderator", state')
    /\ UNCHANGED <<entry, text_arg, image_arg, client_ok, response, calls, pending>>
    /\ UNCHANGED storeVars

\* image_moderator reaches chatLLM.invoke in moderate_image_with_llm
ImageModerationCall ==
    /\ pc = "image_moderator"
    /\ ImageCallsMade(state, client_ok)
    /\ inflight = {}
    /\ pending = NoPending
    /\ inflight' = {"image_moderation"}
    /\ calls' = [calls EXCEPT !.image_moderation = @ + 1]
    /\ UNCHANGED <<entry, text_arg, image_arg, client_ok, pc, state, response, trace,
                   outcomes, pending>>
    /\ UNCHANGED storeVars

\* the moderation call returns or raises; moderate_image_with_llm returns and
\* analyze_image_content reaches its chatLLM.invoke
ImageDescriptionCall ==
    /\ pc = "image_moderator"
    /\ inflight = {"image_moderation"}
    /\ \E mod_outcome \in InvokeOutcomes : pending' = mod_outcome
    /\ inflight' = {"image_description"}
    /\ calls' = [calls EXCEPT !.image_description = @ + 1]
    /\ UNCHANGED <<entry, text_arg, image_arg, client_ok, pc, state, response, trace,
                   outcomes>>
    /\ UNCHANGED storeVars

\* ImageModerator that does not wait for the describer: the node returns with
\* an empty description while the description call is still out
ImageModerator_FireAndForget ==
    /\ pc = "image_moderator"
    /\ ImageCallsMade(state, client_ok) => inflight = {"image_description"}
    /\ LET mod_outcome == IF ImageCallsMade(state, client_ok) THEN pending ELSE Raised
       IN  /\ state' = Merge(state, image_moderation_node(state, client_ok,
                                                          mod_outcome, Returned("")))
           /\ outcomes' = IF ImageCallsMade(state, client_ok)
                          THEN [outcomes EXCEPT
                                   !.image_moderation = OutcomeKind(mod_outcome)]
                          ELSE outcomes
    /\ inflight' = inflight
    /\ pending' = NoPending
    /\ trace' = Append(trace, "image_moderator")
    /\ pc' = NextNode("image_moderator", state')
    /\ UNCHANGED <<entry, text_arg, image_arg, client_ok, response, calls>>
    /\ UNCHANGED storeVars

\* the description call, if one was made, returns or raises; image_moderator
\* returns and the graph merges its update into the state
ImageModerator ==
    /\ pc = "image_moderator"
    /\ ImageCallsMade(state, client_ok) => inflight = {"image_description"}
    /\ \E desc_outcome \in DescribeOutcomes :
          LET mod_outcome == IF ImageCallsMade(state, client_ok) THEN pending ELSE Raised
          IN  /\ state' = Merge(state, image_moderation_node(state, client_ok,
                                                             mod_outcome, desc_outcome))
              /\ outcomes' = IF ImageCallsMade(state, client_ok)
                             THEN [outcomes EXCEPT
                                      !.image_moderation = OutcomeKind(mod_outcome),
                                      !.image_description =
                                          IF desc_outcome.raised THEN "raised"
                                          ELSE "replied"]
                             ELSE outcomes
    /\ inflight' = {}
    /\ pending' = NoPending
    /\ trace' = Append(trace, "image_moderator")
    /\ pc' = NextNode("image_moderator", state')
    /\ UNCHANGED <<entry, text_arg, image_arg, client_ok, response, calls>>
    /\ UNCHANGED storeVars

\* the graph runs result_combiner; an exception leaves graph.invoke
ResultCombiner ==
    /\ pc = "result_combiner"
    /\ LET r == combine_moderation_results(state)
       IN  IF r.raised
           THEN /\ state' = state
                /\ pc' = "raised"
           ELSE /\ state' = r.val
                /\ pc' = NextNode("result_combiner", state')
    /\ trace' = Append(trace, "result_combiner")
    /\ UNCHANGED <<entry, text_arg, image_arg, client_ok, response, calls, outcomes,
                   inflight, pending>>
    /\ UNCHANGED storeVars

\* graph.invoke has returned or raised: the entry point builds its result
Return ==
    /\ pc \in {"END", "raised"}
    /\ response' = IF pc = "raised" THEN Failure("exception")
                   ELSE IF entry = "content" THEN ContentResponse(state)
                   ELSE ImageResponse(state)
    /\ pc' = "returned"
    /\ UNCHANGED <<entry, text_arg, image_arg, client_ok, state, trace, calls, outcomes,
                   inflight, pending>>
    /\ UNCHANGED storeVars

Next ==
    \/ process_content_moderation
    \/ process_image_moderation
    \/ TextModelCall
    \/ TextModerator
    \/ ImageModerationCall
    \/ ImageDescriptionCall
    \/ ImageModerator
    \/ ResultCombiner
    \/ Return

Spec == Init /\ [][Next]_vars

(***************************************************************************)
(* The API server's task store (app.py)                                    *)
(*                                                                         *)
(* The handlers are coroutines on one event loop: each runs without        *)
(* interruption between two awaits.  upload_image stores the entry and     *)
(* adds the background task after its last await; the task runs once the   *)
(* response has been sent, so other requests are served in between.        *)
(* process_image_background and delete_result await nothing.               *)
(***************************************************************************)
MaxUploads == 3

\* what os.urandom(4).hex() may give
Suffixes == { "0a", "0b" }

\* f"task_{len(processing_results) + 1}_{os.urandom(4).hex()}"
TaskId(n, suffix) == << "task", n, suffix >>

Processing == [status |-> "processing", processing_method |-> "none"]

\* what process_image_with_graph and, after it, process_image_base64 may do
BackgroundOutcomes == { "graph_success", "fallback_returned", "exception" }

\* the entry process_image_background stores for a task
BackgroundEntry(outcome) ==
    CASE outcome = "graph_success" ->
            [status |-> "completed", processing_method |-> "graph"]
      [] outcome = "fallback_returned" ->
            [status |-> "completed", processing_method |-> "fallback"]
      [] outcome = "exception" ->
            [status |-> "failed", processing_method |-> "failed"]

\* d[key] = value
StoreItem(d, key, value) ==
    [k \in DOMAIN d \cup {key} |-> IF k = key THEN value ELSE d[k]]

\* del d[key]
DelItem(d, key) == [k \in DOMAIN d \ {key} |-> d[k]]

StoreInit ==
    /\ processing_results = EmptyDict
    /\ background_tasks = {}
    /\ uploads = 0
    /\ deleted = {}
    /\ entry = "content"
    /\ text_arg = <<>>
    /\ image_arg = ""
    /\ client_ok = TRUE
    /\ pc = "call"
    /\ state = NoState
    /\ response = NoResponse
    /\ trace = <<>>
    /\ calls = NoCalls
    /\ outcomes = NoOutcomes
    /\ inflight = {}
    /\ pending = NoPending

\* POST /upload-image with a supported file: the part after the last await
upload_image ==
    /\ uploads < MaxUploads
    /\ \E suffix \in Suffixes :
          LET task_id == TaskId(Cardinality(DOMAIN processing_results) + 1, suffix)
          IN  /\ processing_results' = StoreItem(processing_results, task_id, Processing)
              /\ background_tasks' =
                     background_tasks \cup { [upload |-> uploads + 1, task_id |-> task_id] }
    /\ uploads' = uploads + 1
    /\ UNCHANGED deleted
    /\ UNCHANGED pipelineVars

\* a background task runs: it stores the task's result under its task id
process_image_background ==
    /\ \E task \in background_tasks, outcome \in BackgroundOutcomes :
          /\ processing_results' =
                 StoreItem(processing_results, task.task_id, BackgroundEntry(outcome))
          /\ background_tasks' = background_tasks \ {task}
    /\ UNCHANGED <<uploads, deleted>>
    /\ UNCHANGED pipelineVars

\* DELETE /results/{task_id} for a task id in the store; any other id gets
\* the 404 and changes nothing
delete_result ==
    /\ \E task_id \in DOMAIN processing_results :
          /\ processing_results' = DelItem(processing_results, task_id)
          /\ deleted' = deleted \cup {task_id}
    /\ UNCHANGED <<background_tasks, uploads>>
    /\ UNCHANGED pipelineVars

StoreNext ==
    \/ upload_image
    \/ process_image_background
    \/ delete_result

StoreSpec == StoreInit /\ [][StoreNext]_vars

(***************************************************************************)
(* Properties                                                              *)
(***************************************************************************)
TextNodeRan == Len(trace) >= 1 /\ trace[1] = "text_moderator"

\* a per-modality verdict the combiner reads: a non-empty dict
Present(v) == v.py = "dict" /\ DOMAIN v.d # {}
Unsafe(v) == Present(v) /\ "is_safe" \in DOMAIN v.d /\ v.d.is_safe = FALSE

\* the image was supplied and no verdict on it was obtained
ImageUnanalysable ==
    /\ image_arg # ""
    /\ \/ ~client_ok
       \/ outcomes.image_moderation \in {"raised", "unparseable", "malformed"}

\* C1: in a content-moderation request with an image that could not be
\* analysed (client not buildable, call raised, reply unparseable, reply empty
\* or not a verdict object), a result with success = true never has
\* overall_safe = true.
C1_UnanalysableImageNeverSafe ==
    (pc = "returned" /\ entry = "content" /\ ImageUnanalysable /\ response.success)
        => response.data.d.overall_safe = FALSE

\* C2: when the vision model invocation raises or its reply does not parse as
\* JSON, the image moderator's verdict is exactly is_safe = false, risk_level =
\* medium, categories = ["unknown"], confidence = 0.5, method = analysis_failed,
\* and the node records no error.
C2_ImageFailureIsConservative ==
    outcomes.image_moderation \in {"raised", "unparseable"}
        => /\ state.image_moderation_result.py = "dict"
           /\ LET v == state.image_moderation_result.d
              IN  /\ {"is_safe", "risk_level", "categories", "confidence", "method"}
                         \subseteq DOMAIN v
                  /\ v.is_safe = FALSE
                  /\ v.risk_level = "medium"
                  /\ v.categories = <<"unknown">>
                  /\ v.confidence = "0.5"
                  /\ v.method = "analysis_failed"
           /\ state.error = PyNone

C2_Witness ==
    /\ pc = "result_combiner"
    /\ outcomes.image_moderation = "unparseable"
    /\ state.image_moderation_result = PyDict(AnalysisFailedVerdict)

\* the verdict the keyword matcher computes on the request's text
KeywordVerdict == moderate_text_with_keywords(state.text_content)

\* C3: for a non-blank text whose LLM invocation raises or whose reply cannot
\* be parsed, the text verdict is the keyword matcher's verdict on that text,
\* tagged method = keyword_analysis.
C3_TextFallbackTaggedKeyword ==
    outcomes.text \in {"raised", "unparseable"}
        => state.text_moderation_result =
               PyDict(SetItem(KeywordVerdict, "method", "keyword_analysis"))

\* v agrees with the keyword matcher's verdict on every field of the latter
IsKeywordVerdict(v) ==
    /\ v.py = "dict"
    /\ \A k \in DOMAIN KeywordVerdict : k \in DOMAIN v.d /\ v.d[k] = KeywordVerdict[k]

\* C4: a reply that parses but is not a verdict (an empty object, an object
\* lacking is_safe or risk_level, not an object) is handled like an invocation
\* failure: the text moderator yields the keyword verdict, the image moderator
\* the analysis_failed verdict.
C4_MalformedReplyIsFailure ==
    /\ outcomes.text = "malformed" => IsKeywordVerdict(state.text_moderation_result)
    /\ outcomes.image_moderation = "malformed"
           => state.image_moderation_result = PyDict(AnalysisFailedVerdict)

\* C5: the text moderator never propagates an error: whatever the text and
\* whatever the LLM does, the node leaves a non-null verdict and error = None.
C5_TextNodeAlwaysVerdict ==
    trace = << "text_moderator" >>
        => /\ pc \in {"image_moderator", "result_combiner"}
           /\ state.error = PyNone
           /\ state.text_moderation_result.py = "dict"
           /\ "method" \in DOMAIN state.text_moderation_result.d

C5_Witness ==
    /\ trace = << "text_moderator" >>
    /\ ~client_ok
    /\ ~IsBlank(state.text_content)
    /\ state.text_moderation_result.d.method = "keyword_analysis"

CombinerReturned == entry = "content" /\ pc = "END"

\* C7: the combiner sets overall_safe = false exactly when a present text or
\* image verdict has is_safe = false; an absent verdict never does.
C7_OverallSafeIffNoUnsafeVerdict ==
    CombinerReturned
        => (state.overall_safe = FALSE
               <=> (Unsafe(state.text_moderation_result)
                       \/ Unsafe(state.image_moderation_result)))

C7_Witness ==
    /\ CombinerReturned
    /\ ~Unsafe(state.text_moderation_result)
    /\ Unsafe(state.image_moderation_result)
    /\ state.overall_safe = FALSE

\* the larger of two indices
MaxNat(a, b) == IF a >= b THEN a ELSE b

\* the index of a verdict's risk level, low when it names none
RiskOf(v) == RiskIndex(Get(v.d, "risk_level", "low"))

\* C8 as claimed: the overall risk_level is the maximum of the risk levels of
\* all present verdicts, safe or unsafe, and low when none is present.
C8_RiskIsMaxOfPresent ==
    CombinerReturned
        => LET t == state.text_moderation_result
               i == state.image_moderation_result
           IN  RiskIndex(state.risk_level) =
                   MaxNat(IF Present(t) THEN RiskOf(t) ELSE 1,
                          IF Present(i) THEN RiskOf(i) ELSE 1)

\* C8 amended: the overall risk_level is the maximum of the risk levels of the
\* present verdicts that are unsafe, and low when no present verdict is unsafe.
C8_RiskIsMaxOfUnsafe ==
    CombinerReturned
        => LET t == state.text_moderation_result
               i == state.image_moderation_result
           IN  RiskIndex(state.risk_level) =
                   MaxNat(IF Unsafe(t) THEN RiskOf(t) ELSE 1,
                          IF Unsafe(i) THEN RiskOf(i) ELSE 1)

C8_Witness ==
    /\ CombinerReturned
    /\ Unsafe(state.text_moderation_result)
    /\ Unsafe(state.image_moderation_result)
    /\ Get(state.text_moderation_result.d, "risk_level", "low") = "high"
    /\ Get(state.image_moderation_result.d, "risk_level", "low") = "medium"
    /\ state.risk_level = "high"

\* v with is_safe turned from true to false
Flip(v) == PyDict(SetItem(v.d, "is_safe", FALSE))
Flippable(v) == Present(v) /\ "is_safe" \in DOMAIN v.d /\ v.d.is_safe = TRUE

\* the flipped inputs give overall_safe = false and no lower a risk level
Monotone(before, after) ==
    (~before.raised /\ ~after.raised)
        => /\ after.overall_safe = FALSE
           /\ RiskIndex(after.risk_level) >= RiskIndex(before.risk_level)

\* C9: for the combiner's inputs, turning one verdict's is_safe from true to
\* false with everything else fixed makes overall_safe false and does not
\* lower the overall risk_level (whenever the combiner returns on both inputs).
C9_CombinerMonotone ==
    pc = "result_combiner"
        => LET t == state.text_moderation_result
               i == state.image_moderation_result
               a == state.image_analysis_result
           IN  /\ Flippable(t) => Monotone(Combine(t, i, a), Combine(Flip(t), i, a))
               /\ Flippable(i) => Monotone(Combine(t, i, a), Combine(t, Flip(i), a))

C9_Witness ==
    /\ pc = "result_combiner"
    /\ Flippable(state.image_moderation_result)
    /\ Unsafe(state.text_moderation_result)
    /\ LET t == state.text_moderation_result
           i == state.image_moderation_result
           a == state.image_analysis_result
       IN  /\ ~Combine(t, i, a).raised
           /\ ~Combine(t, Flip(i), a).raised
           /\ Combine(t, i, a).risk_level = "medium"
           /\ Combine(t, Flip(i), a).risk_level = "high"

\* how often node occurs in a run's trace
Runs(node) == Cardinality({ i \in 1..Len(trace) : trace[i] = node })

\* C10: a run of a moderation graph that ends without a graph-level exception
\* has run the result combiner exactly once, after every moderation node, as
\* its last node.
C10_CombinerRunsOnceLast ==
    pc = "END"
        => /\ Runs("result_combiner") = 1
           /\ trace[Len(trace)] = "result_combiner"

\* the content-moderation graph has been invoked
ContentGraphStarted == entry = "content" /\ pc \notin {"call"} /\ state # NoState

\* C11: in every run of the content-moderation graph the text moderator is the
\* first node executed, also when the text is empty and an image is supplied.
C11_TextModeratorFirst ==
    ContentGraphStarted
        => IF trace = <<>> THEN pc = "text_moderator" ELSE trace[1] = "text_moderator"

C11_Witness ==
    /\ ContentGraphStarted
    /\ state.text_content = <<>>
    /\ state.image_base64 # ""
    /\ trace = << "text_moderator", "image_moderator" >>

\* C12: after text_moderator the graph enters image_moderator exactly when an
\* image was supplied and result_combiner otherwise, whatever the text verdict.
C12_ImageRouteByImageOnly ==
    (entry = "content" /\ trace = << "text_moderator" >>)
        => pc = IF image_arg # "" THEN "image_moderator" ELSE "result_combiner"

C12_Witness ==
    /\ entry = "content"
    /\ trace = << "text_moderator" >>
    /\ Unsafe(state.text_moderation_result)
    /\ image_arg # ""
    /\ pc = "image_moderator"

ImageNodeRan == \E i \in 1..Len(trace) : trace[i] = "image_moderator"

\* C13: when an image is supplied, the image node invokes both the image
\* moderator and the image describer, whatever the text verdict, the image
\* verdict or the fate of the image moderation call.
C13_BothImageCallsMade ==
    (entry = "content" /\ image_arg # "" /\ ImageNodeRan)
        => /\ calls.image_moderation = 1
           /\ calls.image_description = 1

\* the description strings a combiner input may carry: absent or empty, the
\* describer's error annotation, a description
DescriptionStrings == { "", "image analysis failed: error", "a street at night" }

SameSafety(a, b) ==
    /\ a.raised = b.raised
    /\ ~a.raised => a.overall_safe = b.overall_safe /\ a.risk_level = b.risk_level

\* C14: combiner inputs that differ only in the description string give the
\* same overall_safe and risk_level, and a failed describer invocation leaves
\* no error in the state and turns no request into a failure.
C14_DescriptionNeverAffectsSafety ==
    /\ pc = "result_combiner"
          => \A d1, d2 \in DescriptionStrings \cup {state.image_analysis_result} :
                SameSafety(Combine(state.text_moderation_result,
                                   state.image_moderation_result, d1),
                           Combine(state.text_moderation_result,
                                   state.image_moderation_result, d2))
    /\ outcomes.image_description = "raised"
          => /\ state.error = PyNone
             /\ (pc = "returned" /\ ~response.success)
                   => /\ entry = "content"
                      /\ Combine(state.text_moderation_result,
                                 state.image_moderation_result, "").raised

C14_Witness ==
    /\ pc = "returned"
    /\ outcomes.image_description = "raised"
    /\ state.image_analysis_result = "image analysis failed: error"
    /\ Unsafe(state.image_moderation_result)
    /\ response.success
    /\ response.data.d.overall_safe = FALSE

\* a complete verdict: every field of the overall verdict is there
CompleteVerdict(r) ==
    /\ r.success = TRUE
    /\ r.error = PyNone
    /\ r.data.py = "dict"
    /\ DOMAIN r.data.d = {"overall_safe", "risk_level", "recommendations",
                          "text_moderation", "image_moderation", "image_analysis"}
    /\ r.data.d.overall_safe \in BOOLEAN
    /\ RiskIndex(r.data.d.risk_level) # 0
    /\ r.data.d.recommendations # <<>>

GraphLevelFailure(r) ==
    /\ r.success = FALSE
    /\ r.data = PyNone
    /\ r.error.py = "str"
    /\ r.error.s # ""

\* C15: a content request with at least one content item returns either a
\* complete verdict (success, no error, every verdict field in data) or a
\* graph-level failure (no success, no data, a non-empty error), never a mix.
C15_CompleteVerdictOrFailure ==
    (entry = "content" /\ pc = "returned" /\ (text_arg # <<>> \/ image_arg # ""))
        => /\ CompleteVerdict(response) \/ GraphLevelFailure(response)
           /\ ~(CompleteVerdict(response) /\ GraphLevelFailure(response))
           /\ GraphLevelFailure(response)
                 <=> Combine(state.text_moderation_result, state.image_moderation_result,
                             state.image_analysis_result).raised

C15_Witness ==
    /\ entry = "content"
    /\ pc = "returned"
    /\ image_arg # ""
    /\ GraphLevelFailure(response)

\* the text moderator fell back on the keyword matcher for the request's text
KeywordMatcherRan ==
    /\ TextNodeRan
    /\ ~IsBlank(text_arg)
    /\ ~client_ok \/ outcomes.text \in {"raised", "unparseable"}

\* the categories of the keyword table that have a keyword occurring in text
DistinctCategories(text) ==
    { moderation_keywords[i].category : i \in
        { i \in 1..Len(moderation_keywords) :
            \E j \in 1..Len(moderation_keywords[i].keywords) :
                Contains(Lower(moderation_keywords[i].keywords[j]), Lower(text)) } }

\* C16: a text whose keyword hits fall in one or two distinct categories gets
\* risk_level = medium from the keyword matcher, however many keywords it hits.
C16_OneOrTwoCategoriesMedium ==
    (KeywordMatcherRan /\ Cardinality(DistinctCategories(text_arg)) \in {1, 2})
        => state.text_moderation_result.d.risk_level = "medium"

\* C17: a text whose keyword hits fall in three or more distinct categories
\* gets is_safe = false and risk_level = high from the keyword matcher.
C17_ThreeCategoriesHigh ==
    (KeywordMatcherRan /\ Cardinality(DistinctCategories(text_arg)) >= 3)
        => /\ state.text_moderation_result.d.is_safe = FALSE
           /\ state.text_moderation_result.d.risk_level = "high"

C17_Witness ==
    /\ KeywordMatcherRan
    /\ Cardinality(DistinctCategories(text_arg)) = 3
    /\ Len(state.text_moderation_result.d.categories) = 3
    /\ state.text_moderation_result.d.risk_level = "high"

NoDuplicates(s) == \A i, j \in 1..Len(s) : s[i] = s[j] => i = j

\* C18: the categories the keyword matcher returns list each matched category
\* exactly once, also when several keywords of one category are hit.
C18_CategoriesListedOnce ==
    KeywordMatcherRan
        => LET categories == state.text_moderation_result.d.categories
           IN  /\ NoDuplicates(categories)
               /\ { categories[i] : i \in 1..Len(categories) }
                      = DistinctCategories(text_arg)

\* the per-modality verdicts of a returned overall verdict
ReturnedVerdicts ==
    IF entry = "content"
    THEN { response.data.d.text_moderation, response.data.d.image_moderation }
    ELSE { response.data.d.image_moderation }

\* C19: every per-modality verdict in a returned overall verdict, whichever of
\* the LLM, the keyword fallback or a default produced it, has empty categories
\* whenever its is_safe is true.
C19_SafeVerdictHasNoCategories ==
    (pc = "returned" /\ response.success)
        => \A v \in ReturnedVerdicts :
              (v.py = "dict" /\ Get(v.d, "is_safe", FALSE) = TRUE)
                  => Get(v.d, "categories", <<>>) = <<>>

SummaryLines == { "moderation_passed", "moderation_failed" }
TextDetailLines == { "text_contains" }
ImageDetailLines == { "image_safe", "image_contains", "image_described" }

\* C20: in every combiner output recommendations is non-empty, starts with the
\* pass/fail summary line, carries no other summary line, and has every text
\* detail line before every image detail line.
C20_SummaryFirstTextBeforeImage ==
    CombinerReturned
        => LET recs == state.recommendations
           IN  /\ Len(recs) >= 1
               /\ recs[1].line \in SummaryLines
               /\ recs[1].line = "moderation_passed" <=> state.overall_safe
               /\ \A i \in 2..Len(recs) :
                     recs[i].line \in TextDetailLines \cup ImageDetailLines
               /\ \A i, j \in 2..Len(recs) :
                     (recs[i].line \in TextDetailLines
                          /\ recs[j].line \in ImageDetailLines) => i < j

C20_Witness ==
    /\ CombinerReturned
    /\ Len(state.recommendations) = 4
    /\ state.recommendations[1].line = "moderation_failed"
    /\ state.recommendations[2].line = "text_contains"
    /\ state.recommendations[3].line = "image_contains"
    /\ state.recommendations[4].line = "image_described"

\* C21: in every combiner output the leading recommendation is the "moderation
\* passed" line if overall_safe is true and the "moderation failed, revision
\* suggested" line if it is false.
C21_LeadingLineTellsOverallSafe ==
    CombinerReturned
        => /\ state.recommendations # <<>>
           /\ state.overall_safe
                 => Head(state.recommendations) = Line("moderation_passed")
           /\ ~state.overall_safe
                 => Head(state.recommendations) = Line("moderation_failed")

C21_Witness ==
    /\ CombinerReturned
    /\ ~state.overall_safe
    /\ Unsafe(state.image_moderation_result)
    /\ ~Unsafe(state.text_moderation_result)
    /\ Head(state.recommendations) = Line("moderation_failed")

NothingSupplied == entry = "content" /\ text_arg = <<>> /\ image_arg = ""

\* C22 (as stated): with neither text nor image the result is a verdict:
\* both per-modality verdicts are no_content verdicts, overall_safe is true
\* and recommendations is the single "moderation passed" line.
C22_NothingSuppliedPasses ==
    (NothingSupplied /\ pc = "returned")
        => /\ response.success
           /\ response.data.d.overall_safe = TRUE
           /\ response.data.d.recommendations = << Line("moderation_passed") >>
           /\ \A v \in ReturnedVerdicts :
                 v.py = "dict" /\ Get(v.d, "method", "") = "no_content"

\* C22 (amended): with neither text nor image the orchestrator runs no node
\* and calls no model; it returns success = false, data = null and the error
\* "No content provided".
C22_NothingSuppliedIsRejected ==
    NothingSupplied
        => /\ pc \in {"call", "returned"}
           /\ trace = <<>>
           /\ calls = NoCalls
           /\ pc = "returned" => response = Failure("No content provided")

C22_Witness ==
    /\ NothingSupplied
    /\ pc = "returned"
    /\ response = Failure("No content provided")

\* a content request with an unsafe text verdict and no image has returned a verdict
UnsafeTextOnlyReturned ==
    /\ entry = "content"
    /\ pc = "returned"
    /\ response.success
    /\ image_arg = ""
    /\ Unsafe(response.data.d.text_moderation)

\* C23: when the text verdict is unsafe and no image is supplied, the returned
\* overall verdict carries no image verdict and its risk_level is the text
\* verdict's risk_level (low when that verdict names none).
C23_UnsafeTextOnlyKeepsTextRisk ==
    UnsafeTextOnlyReturned
        => /\ ~Present(response.data.d.image_moderation)
           /\ response.data.d.overall_safe = FALSE
           /\ response.data.d.risk_level
                 = Get(response.data.d.text_moderation.d, "risk_level", "low")
           /\ \A i \in 1..Len(response.data.d.recommendations) :
                 response.data.d.recommendations[i].line \notin ImageDetailLines

C23_Witness ==
    /\ UnsafeTextOnlyReturned
    /\ "risk_level" \in DOMAIN response.data.d.text_moderation.d
    /\ response.data.d.text_moderation.d.risk_level = "low"
    /\ response.data.d.risk_level = "low"

\* an unsafe verdict whose risk_level is none of low, medium, high
UnknownRisk(v) ==
    Unsafe(v) /\ "risk_level" \in DOMAIN v.d /\ RiskIndex(v.d.risk_level) = 0

\* C24: when an unsafe per-modality verdict carries a risk_level outside
\* {low, medium, high}, the combiner counts it as medium and the request still
\* returns an overall verdict.
C24_UnknownRiskCountsAsMedium ==
    (/\ entry = "content"
     /\ pc = "returned"
     /\ TextNodeRan
     /\ UnknownRisk(state.text_moderation_result)
            \/ UnknownRisk(state.image_moderation_result))
        => /\ response.success
           /\ response.data.d.overall_safe = FALSE
           /\ RiskIndex(response.data.d.risk_level) >= RiskIndex("medium")

\* C25: the combiner is a function of the text verdict, the image verdict and
\* the description: a second call on the state the first call returned (which
\* holds the same three inputs) returns the same overall_safe, risk_level and
\* recommendations, whatever the first call left in the state.
C25_CombinerDeterministic ==
    CombinerReturned
        => LET again == combine_moderation_results(state)
           IN  /\ ~again.raised
               /\ again.val.overall_safe = state.overall_safe
               /\ again.val.risk_level = state.risk_level
               /\ again.val.recommendations = state.recommendations
               /\ again.val = state

C25_Witness ==
    /\ CombinerReturned
    /\ Unsafe(state.text_moderation_result)
    /\ Unsafe(state.image_moderation_result)
    /\ Len(state.recommendations) >= 3
    /\ combine_moderation_results(state).val = state

CombinerBegun == \E i \in 1..Len(trace) : trace[i] = "result_combiner"

\* C26: the combiner never starts while a model call of the request is out:
\* when it is about to run, and from then on, no call is in flight and every
\* call that was issued has returned or raised.
C26_CombinerAfterAllCalls ==
    (pc = "result_combiner" \/ CombinerBegun)
        => /\ inflight = {}
           /\ pending = NoPending
           /\ calls.text = 1 => outcomes.text # "none"
           /\ calls.image_moderation = 1 => outcomes.image_moderation # "none"
           /\ calls.image_description = 1 => outcomes.image_description # "none"
           /\ image_arg # "" => ImageNodeRan

C26_Witness ==
    /\ pc = "result_combiner"
    /\ calls = [text |-> 1, image_moderation |-> 1, image_description |-> 1]
    /\ outcomes.text = "raised"
    /\ outcomes.image_moderation = "raised"
    /\ outcomes.image_description = "raised"
    /\ inflight = {}

\* the calls the inputs alone ask for
ExpectedCalls ==
    [text |-> IF IsBlank(text_arg) THEN 0 ELSE 1,
     image_moderation |-> IF image_arg # "" THEN 1 ELSE 0,
     image_description |-> IF image_arg # "" THEN 1 ELSE 0]

\* C27: the model calls of a content-moderation request are fixed by its
\* inputs: one text call iff the text is non-blank, one image-moderation and
\* one image-description call iff an image is supplied, and no call besides.
C27_CallsFixedByInputs ==
    (entry = "content" /\ pc = "returned") => calls = ExpectedCalls

\* C28: a successful result of process_image_moderation whose image verdict is
\* unsafe has overall_safe = false and a risk_level at least the verdict's.
C28_ImageOnlyUnsafeIsUnsafe ==
    (/\ entry = "image"
     /\ pc = "returned"
     /\ response.success
     /\ Unsafe(response.data.d.image_moderation))
        => /\ response.data.d.overall_safe = FALSE
           /\ RiskIndex(response.data.d.risk_level)
                 >= RiskIndex(Get(response.data.d.image_moderation.d, "risk_level", "low"))

\* image_moderator returned an error text with a null verdict: it does so
\* exactly when moderate_image_with_llm raises, that is when an image is
\* supplied and the client cannot be built
ImageNodeRecordedError == ImageNodeRan /\ image_arg # "" /\ ~client_ok

\* C29: in the content-moderation graph an error recorded by a moderation node
\* reaches the caller: process_content_moderation does not report success for
\* a run in which a node recorded an error.
C29_NodeErrorReachesCaller ==
    (entry = "content" /\ pc = "returned" /\ ImageNodeRecordedError)
        => /\ response.success = FALSE
           /\ response.error # PyNone

\* C30: once DELETE /results/{task_id} has succeeded for a task id, the id
\* stays out of processing_results: no step of a background task puts a
\* deleted, absent id back into the store.
C30_DeletedStaysAbsent ==
    [][ \A task_id \in deleted :
           (/\ task_id \notin DOMAIN processing_results
            /\ task_id \in DOMAIN processing_results')
               => uploads' = uploads + 1 ]_vars

====
